---- MODULE Spec2Model ----
(***************************************************************************)
(* The semantic conversation cache of core/conversation_history.py: an     *)
(* append-only record store (successful_conversations.json) and a vector   *)
(* index over the normalized questions (faiss_index/conversations.index),  *)
(* with dedup-on-write and threshold-gated retrieval.                      *)
(*                                                                         *)
(* Text is a sequence of one-character strings.  The embedding model is    *)
(* external: it is modelled as a deterministic function from a text to one *)
(* integer (a point on a line), and the squared L2 distance of two unit    *)
(* vectors as ten times the gap of their points, in hundredths, so that    *)
(* the code's cosine_similarity = 1 - distance_sq / 2 is CosineSimilarity  *)
(* below, in hundredths too (neighbouring points: 95, two apart: 90).      *)
(* Arithmetic is exact.  Timestamps are left out: no operation reads them. *)
(* A file that is missing, empty or malformed loads as the empty list, so  *)
(* the record file is modelled by the list it holds.                       *)
(*                                                                         *)
(* Specifications of the cache: Spec starts with no files; SpecSeeded       *)
(* starts with the files that SeedSize earlier adds have left;              *)
(* SpecNormalize applies _normalize_question to every text of at most       *)
(* NormLen characters.  In SpecFaults the environment fails: the model      *)
(* does not load, encode raises, a file cannot be written.  SpecLoadFaults  *)
(* keeps the failures of the model and lets every write succeed;            *)
(* SpecSeededFaults keeps the failures of the writes, on a seeded store.    *)
(* An exception that no handler of the module catches leaves the call: the  *)
(* state is the one at the raise, the outcome of the call is "raised".      *)
(*                                                                         *)
(* SpecMemory is modules/memory.py: the MemoryManager of each session, its  *)
(* session file and the historical file that the sessions share.            *)
(*                                                                         *)
(* In SpecNoFailures nothing fails and a process ends only between calls.   *)
(* SpecConcurrent runs add_conversation on two threads, statement by        *)
(* statement.  SpecHeuristics applies QueryHeuristics.process_query of      *)
(* core/heuristics.py to every query of at most QueryLen tokens, and        *)
(* SpecAgent is the main loop of agent.py.                                  *)
(***************************************************************************)
EXTENDS Integers, Sequences, FiniteSets, TLC

VARIABLES
    embedding_model,      \* "None" or "loaded"                 (line 25)
    faiss_index,          \* [exists, d, entries]; ~exists is None (line 26)
    conversations_data,   \* sequence of records                (line 27)
    is_initialized,       \* BOOLEAN                            (line 28)
    history_file,         \* content of CONVERSATION_HISTORY_FILE
    index_file,           \* content of FAISS_INDEX_FILE, [exists, d, entries]
    last,                 \* the last call: its arguments, what it returned or logged
    items,                \* modules/memory.py: self.items of each session's manager
    memory_files,         \* content of each session's memory_path file
    historical_conversations,  \* content of data/historical_conversations.json
    returned,             \* what the last get_session_items call returned
    adding,               \* each thread's position and locals in add_conversation
    main,                 \* agent.py: the position and the locals of main
    processed             \* a query and what process_query returned for it

\* The globals and the two files.
cache_vars ==
    <<embedding_model, faiss_index, conversations_data, is_initialized,
      history_file, index_file>>

memory_vars == <<items, memory_files, historical_conversations, returned>>

agent_vars == <<main, processed>>

vars == <<cache_vars, last, memory_vars, adding, agent_vars>>

----------------------------------------------------------------------------
(* Bounds and input sets *)

MaxRecords == 2
NormLen == 4
SeedSize == 9
MaxItems == 2

Alphabet == {"#", " ", "a"}

\* Every text of at most n characters.
Texts(n) == UNION {[1..k -> Alphabet] : k \in 0..n}

\* The questions the calls are made with: empty, blank, marker only, plain,
\* marked, padded, doubly marked, blank before the marker, and two texts,
\* "a#" and "a a", that have the same embedding.
Questions ==
    { <<>>, <<" ">>, <<"#">>, <<"a">>, <<"#", "a">>, <<" ", "a", " ">>,
      <<"#", "#">>, <<" ", "#">>, <<"a", "a">>, <<"a", "#">>,
      <<"#", "#", "a">>, <<"a", " ", "a">> }

Answers == {"", "x", "y"}

None == "None"

\* What the environment does to one call: the model fails to load (line 184),
\* encode raises on the texts of unembeddable (line 47), the record file
\* cannot be opened for writing (line 81), the write of the index file fails
\* (lines 171, 267).
NoFault ==
    [model_load_fails |-> FALSE, unembeddable |-> {}, json_write_fails |-> FALSE,
     index_write_fails |-> FALSE]

Unembeddable == { <<"a">> }

\* The questions of the calls made in a failing environment: two that are
\* stored apart and retrieved for one another.
FaultQuestions == { <<"a">>, <<"a", "a">> }

Faults ==
    {NoFault, [NoFault EXCEPT !.model_load_fails = TRUE],
     [NoFault EXCEPT !.json_write_fails = TRUE],
     [NoFault EXCEPT !.index_write_fails = TRUE]}
        \cup {[NoFault EXCEPT !.unembeddable = {t}] : t \in Unembeddable}

\* The failures of the model alone: every write succeeds.
LoadFaults == {f \in Faults : ~f.json_write_fails /\ ~f.index_write_fails}

\* The failures of the writes alone.
WriteFaults == {f \in Faults : ~f.model_load_fails /\ f.unembeddable = {}}

FaultAnswers == {"x"}

----------------------------------------------------------------------------
(* Program constants *)

DEFAULT_SIMILARITY_THRESHOLD_RETRIEVAL == 90
DEFAULT_SIMILARITY_THRESHOLD_DEDUPLICATION == 95
Dimension == 384

\* The dimension of an index file the current model has not written, and the
\* vector its entries hold (far from every vector of the current model).
OtherDimension == 768
ForeignVector == 1000

----------------------------------------------------------------------------
(* Text normalization *)

RECURSIVE lstrip(_)
lstrip(s) == IF s # <<>> /\ Head(s) = " " THEN lstrip(Tail(s)) ELSE s

RECURSIVE rstrip(_)
rstrip(s) ==
    IF s # <<>> /\ s[Len(s)] = " " THEN rstrip(SubSeq(s, 1, Len(s) - 1)) ELSE s

strip(s) == rstrip(lstrip(s))

startswith(s, c) == s # <<>> /\ Head(s) = c

\* Mutant: the marker is kept.
normalize_keep_marker(question_text) == strip(question_text)

\* Mutant: no second trim after the marker is removed.
normalize_no_retrim(question_text) ==
    LET normalized_q == strip(question_text)
    IN IF startswith(normalized_q, "#") THEN Tail(normalized_q)
       ELSE normalized_q

_normalize_question(question_text) ==
    LET normalized_q == strip(question_text)
    IN IF startswith(normalized_q, "#") THEN strip(Tail(normalized_q))
       ELSE normalized_q

----------------------------------------------------------------------------
(* The embedding model and the vector index *)

\* SentenceTransformer.encode on one text: a deterministic function of the
\* text.  Texts that differ in one marker are neighbours; two texts may share
\* a vector.
CharCode(c) == CASE c = "a" -> 1 [] c = "#" -> 2 [] OTHER -> 0

RECURSIVE encode(_)
encode(text) ==
    IF text = <<>> THEN 0 ELSE CharCode(Head(text)) + 2 * encode(Tail(text))

NoVector == -1

_get_embedding(model, text) == IF model = None THEN NoVector ELSE encode(text)

\* embedding_model.encode raises on this text (line 47, outside any try).
Raises(s, text) == s.embedding_model # None /\ text \in s.fault.unembeddable

\* Squared L2 distance of two unit vectors, in hundredths (0 .. 400).
DistanceSq(u, v) ==
    LET gap == IF u > v THEN u - v ELSE v - u
    IN IF 10 * gap > 400 THEN 400 ELSE 10 * gap

CosineSimilarity(distance_sq) == 100 - distance_sq \div 2

NoIndex == [exists |-> FALSE, d |-> 0, entries |-> <<>>]

\* faiss.IndexIDMap(faiss.IndexFlatL2(dimension))
IndexIDMap(dimension) == [exists |-> TRUE, d |-> dimension, entries |-> <<>>]

ntotal(index) == Len(index.entries)

add_with_ids(index, vector, id) ==
    [index EXCEPT !.entries = Append(@, [id |-> id, vector |-> vector])]

NoResult == [found |-> FALSE, distance_sq |-> 0, id |-> -1]

\* faiss_index.search(vector, k=1) on a flat index: the entry at the least
\* distance, the earliest inserted among equals; id -1 when there is none.
search(index, vector) ==
    LET n == Len(index.entries)
        dist(i) == DistanceSq(index.entries[i].vector, vector)
    IN IF n = 0 THEN [found |-> TRUE, distance_sq |-> 0, id |-> -1]
       ELSE LET best == CHOOSE i \in 1..n :
                            \A j \in 1..n :
                                dist(i) < dist(j) \/ (dist(i) = dist(j) /\ i <= j)
            IN [found |-> TRUE, distance_sq |-> dist(best),
                id |-> index.entries[best].id]

\* Mutant: the search before a save finds nothing.
search_disabled(s, normalized_query_text) == NoResult

_search_faiss(s, normalized_query_text) ==
    IF ~s.faiss_index.exists \/ ntotal(s.faiss_index) = 0
       \/ s.embedding_model = None
    THEN NoResult
    ELSE LET search_embedding ==
                 _get_embedding(s.embedding_model, normalized_query_text)
         IN IF search_embedding = NoVector THEN NoResult
            ELSE search(s.faiss_index, search_embedding)

----------------------------------------------------------------------------
(* The process state as one value, and initialization *)

Mem ==
    [embedding_model |-> embedding_model, faiss_index |-> faiss_index,
     conversations_data |-> conversations_data,
     is_initialized |-> is_initialized,
     history_file |-> history_file, index_file |-> index_file,
     fault |-> NoFault, raised |-> FALSE]

\* The module's globals as a fresh process has them (lines 25-28).
Globals(s) ==
    [s EXCEPT !.embedding_model = None, !.faiss_index = NoIndex,
              !.conversations_data = <<>>, !.is_initialized = FALSE]

\* A missing or empty file loads as the empty list.
_load_conversations_from_json(s) ==
    [s EXCEPT !.conversations_data = s.history_file]

\* Mutant: the save adds the latest record to what the file holds.
save_latest_record(s) ==
    IF s.fault.json_write_fails \/ s.conversations_data = <<>> THEN s
    ELSE [s EXCEPT !.history_file =
              Append(@, s.conversations_data[Len(s.conversations_data)])]

\* A write that fails is logged (line 82) and leaves the file as it was.
_save_conversations_to_json(s) ==
    IF s.fault.json_write_fails THEN s
    ELSE [s EXCEPT !.history_file = s.conversations_data]

write_index(s) ==
    IF s.fault.index_write_fails THEN s ELSE [s EXCEPT !.index_file = s.faiss_index]

Abs(n) == IF n < 0 THEN -n ELSE n

\* abs(ntotal - len) > len * 0.1, in tenths.
Discrepancy(index, data) == 10 * Abs(ntotal(index) - Len(data)) > Len(data)

\* The index read from the file, or None when it is to be rebuilt
\* (lines 114-129).
ReadIndex(s, dimension) ==
    IF ~s.index_file.exists THEN s.faiss_index
    ELSE IF Discrepancy(s.index_file, s.conversations_data) THEN NoIndex
    ELSE IF s.index_file.d # dimension THEN NoIndex
    ELSE s.index_file

\* The index built from the records, in their order (lines 135-166).
RECURSIVE BuildIndex(_, _, _)
BuildIndex(model, data, index) ==
    IF data = <<>> THEN index
    ELSE LET conv == Head(data)
             question_text == conv.normalized_question
             emb == _get_embedding(model, question_text)
         IN IF question_text = <<>> \/ emb = NoVector
            THEN BuildIndex(model, Tail(data), index)
            ELSE BuildIndex(model, Tail(data), add_with_ids(index, emb, conv.id))

\* encode raises on a record of the list while the index is built (line 153).
BuildRaises(s) ==
    \E i \in 1..Len(s.conversations_data) :
        /\ s.conversations_data[i].normalized_question # <<>>
        /\ Raises(s, s.conversations_data[i].normalized_question)

\* When the build raises, the global holds the empty index of line 136: the
\* vectors are added, and the file written, after the loop.
_load_or_build_faiss_index(s) ==
    IF s.embedding_model = None THEN s
    ELSE LET dimension == Dimension
             read == ReadIndex(s, dimension)
         IN IF read.exists THEN [s EXCEPT !.faiss_index = read]
            ELSE IF BuildRaises(s)
            THEN [s EXCEPT !.faiss_index = IndexIDMap(dimension), !.raised = TRUE]
            ELSE write_index(
                     [s EXCEPT !.faiss_index =
                          BuildIndex(s.embedding_model, s.conversations_data,
                                     IndexIDMap(dimension))])

\* Mutant: a failed model load leaves the cache uninitialized.
ensure_initialized_retrying(s) ==
    IF s.is_initialized \/ s.fault.model_load_fails THEN s
    ELSE LET loaded == [s EXCEPT !.embedding_model = "loaded"]
             built == _load_or_build_faiss_index(
                          _load_conversations_from_json(loaded))
         IN IF built.raised THEN built ELSE [built EXCEPT !.is_initialized = TRUE]

\* Mutant: every call loads the model, the records and the index again.
ensure_initialized_reloading(s) ==
    IF s.fault.model_load_fails THEN [s EXCEPT !.is_initialized = TRUE]
    ELSE LET loaded == [s EXCEPT !.embedding_model = "loaded"]
             built == _load_or_build_faiss_index(
                          _load_conversations_from_json(loaded))
         IN IF built.raised THEN built ELSE [built EXCEPT !.is_initialized = TRUE]

\* Lines 174-195.  When the model fails to load the cache is marked
\* initialized with nothing loaded; an exception of the build leaves through
\* the caller before line 194.
ensure_initialized(s) ==
    IF s.is_initialized THEN s
    ELSE IF s.fault.model_load_fails THEN [s EXCEPT !.is_initialized = TRUE]
    ELSE LET loaded == [s EXCEPT !.embedding_model = "loaded"]
             built == _load_or_build_faiss_index(
                          _load_conversations_from_json(loaded))
         IN IF built.raised THEN built ELSE [built EXCEPT !.is_initialized = TRUE]

----------------------------------------------------------------------------
(* add_conversation and find_conversation_by_question *)

NoCall ==
    [op |-> "none", question |-> <<>>, answer |-> "", normalized |-> <<>>,
     outcome |-> "none", id |-> 0, similarity |-> -200, result |-> None,
     fault |-> NoFault, behind |-> FALSE]

\* A file does not hold what the memory of the initialized process holds.
Behind(s) ==
    /\ s.is_initialized
    /\ \/ s.history_file # s.conversations_data
       \/ s.faiss_index.exists /\ s.index_file # s.faiss_index

\* What an initialization that returned has printed: nothing when the cache
\* was initialized, the fatal message of line 185, "Rebuilding index." of
\* lines 122 and 125, "Building new FAISS index..." alone, or the loading of
\* the file alone.
InitOutcome(s0, s) ==
    CASE s0.is_initialized -> "already"
      [] s.embedding_model = None -> "degraded"
      [] s0.index_file.exists /\ ReadIndex(
             _load_conversations_from_json(s0), Dimension).exists -> "loaded"
      [] s0.index_file.exists -> "rebuilt"
      [] s0.faiss_index.exists -> "kept"
      [] OTHER -> "built"

valid_ids(data) == {data[i].id : i \in 1..Len(data)}

Max(S) == CHOOSE m \in S : \A n \in S : n <= m

\* Mutant: every record gets id 1.
new_id_constant(data) == 1

\* Mutant: the greatest id is issued again.
new_id_reused(data) == IF valid_ids(data) = {} THEN 1 ELSE Max(valid_ids(data))

\* Lines 236-241.
new_id(data) == IF valid_ids(data) = {} THEN 1 ELSE Max(valid_ids(data)) + 1

\* The first record with this id, as the loops of lines 223 and 327 find it.
HasId(data, id) == \E i \in 1..Len(data) : data[i].id = id

ById(data, id) ==
    data[CHOOSE i \in 1..Len(data) :
             data[i].id = id /\ \A j \in 1..(i - 1) : data[j].id # id]

\* Mutant: a matched id that no record has yields the answer of the latest
\* record.
LookupFallback(data, id) ==
    IF HasId(data, id) THEN ById(data, id).final_answer
    ELSE IF data # <<>> THEN data[Len(data)].final_answer
    ELSE None

\* Lines 327-335: the answer of the record with the matched id; None, with a
\* warning, when no record has it.
Lookup(data, id) ==
    IF HasId(data, id) THEN ById(data, id).final_answer ELSE None

\* Mutant: a similarity equal to the threshold is no match.
IsMatchStrict(cosine_similarity, threshold) == cosine_similarity > threshold

\* Mutant: the comparison is turned around.
IsMatchReversed(cosine_similarity, threshold) == cosine_similarity <= threshold

\* Lines 213-229: the nearest neighbour makes the question a duplicate.
IsMatch(cosine_similarity, threshold) == cosine_similarity >= threshold

\* Lines 254-255: the record is appended and the list saved.
AppendAndSave(s, entry) ==
    _save_conversations_to_json(
        [s EXCEPT !.conversations_data = Append(@, entry)])

\* Mutant: the index is left as it was.
UpdateIndexSkipped(s, embedding, id) == s

\* Lines 257-268: the vector is added under the record's id, the index saved.
UpdateIndex(s, embedding, id) ==
    IF s.faiss_index.exists /\ embedding # NoVector
    THEN write_index([s EXCEPT !.faiss_index = add_with_ids(@, embedding, id)])
    ELSE s

\* Mutant: the rejected pair is appended all the same.
RejectedAppending(s) ==
    [state |-> [s EXCEPT !.conversations_data =
                    Append(@, [id |-> 0, normalized_question |-> <<>>,
                               final_answer |-> ""])],
     outcome |-> "rejected", id |-> 0, similarity |-> -200]

\* What a call leaves: the state, and what it logged.
Rejected(s) == [state |-> s, outcome |-> "rejected", id |-> 0, similarity |-> -200]

\* An exception leaves through the caller.
Raised(s) ==
    [state |-> [s EXCEPT !.raised = TRUE], outcome |-> "raised", id |-> 0,
     similarity |-> -200]

add_conversation(s0, question, final_answer, deduplication_threshold) ==
    LET s == ensure_initialized(s0)
        normalized_question_to_store == _normalize_question(question)
        hit == _search_faiss(s, normalized_question_to_store)
        searched == hit.found /\ hit.id # -1
        cosine_similarity ==
            IF searched THEN CosineSimilarity(hit.distance_sq) ELSE -200
        embedding == _get_embedding(s.embedding_model, normalized_question_to_store)
        id == new_id(s.conversations_data)
        new_entry == [id |-> id,
                      normalized_question |-> normalized_question_to_store,
                      final_answer |-> final_answer]
    IN IF s.raised THEN Raised(s)
       ELSE IF question = <<>> \/ final_answer = "" THEN Rejected(s)
       ELSE IF normalized_question_to_store = <<>> THEN Rejected(s)
       ELSE IF Raises(s, normalized_question_to_store) THEN Raised(s)
       ELSE IF searched /\ IsMatch(cosine_similarity, deduplication_threshold)
       THEN [state |-> s, outcome |-> "duplicate", id |-> hit.id,
             similarity |-> cosine_similarity]
       ELSE [state |-> UpdateIndex(AppendAndSave(s, new_entry), embedding, id),
             outcome |-> "stored", id |-> id, similarity |-> cosine_similarity]

\* Mutant: a find saves the list before it returns.
find_saving(s0, question, similarity_threshold) ==
    LET s == ensure_initialized(s0)
    IN [state |-> _save_conversations_to_json(s), result |-> None, id |-> 0,
        similarity |-> -200]

find_conversation_by_question(s0, question, similarity_threshold) ==
    LET s == ensure_initialized(s0)
        normalized_search_question == _normalize_question(question)
        search_embedding ==
            _get_embedding(s.embedding_model, normalized_search_question)
        hit == search(s.faiss_index, search_embedding)
        cosine_similarity == CosineSimilarity(hit.distance_sq)
        miss == [state |-> s, result |-> None, id |-> 0, similarity |-> -200]
    IN IF s.raised THEN miss
       ELSE IF question = <<>> \/ normalized_search_question = <<>> THEN miss
       ELSE IF ~s.faiss_index.exists \/ ntotal(s.faiss_index) = 0
               \/ s.embedding_model = None
       THEN miss
       ELSE IF Raises(s, normalized_search_question)
       THEN [miss EXCEPT !.state = [s EXCEPT !.raised = TRUE]]
       ELSE IF search_embedding = NoVector THEN miss
       ELSE IF hit.id = -1 THEN miss
       ELSE [state |-> s,
             result |-> IF IsMatch(cosine_similarity, similarity_threshold)
                        THEN Lookup(s.conversations_data, hit.id)
                        ELSE None,
             id |-> hit.id, similarity |-> cosine_similarity]

----------------------------------------------------------------------------
(* Actions *)

Becomes(s) ==
    /\ embedding_model' = s.embedding_model
    /\ faiss_index' = s.faiss_index
    /\ conversations_data' = s.conversations_data
    /\ is_initialized' = s.is_initialized
    /\ history_file' = s.history_file
    /\ index_file' = s.index_file

StateIs(s) ==
    /\ embedding_model = s.embedding_model
    /\ faiss_index = s.faiss_index
    /\ conversations_data = s.conversations_data
    /\ is_initialized = s.is_initialized
    /\ history_file = s.history_file
    /\ index_file = s.index_file

\* ensure_initialized() called at startup (line 342).
Initialize ==
    /\ Becomes(ensure_initialized(Mem))
    /\ UNCHANGED <<memory_vars, adding, agent_vars>>
    /\ last' = [NoCall EXCEPT !.op = "init"]

Add(question, final_answer, limit) ==
    LET r == add_conversation(Mem, question, final_answer,
                              DEFAULT_SIMILARITY_THRESHOLD_DEDUPLICATION)
    IN /\ Len(r.state.conversations_data) <= limit
       /\ Becomes(r.state)
       /\ UNCHANGED <<memory_vars, adding, agent_vars>>
       /\ last' = [op |-> "add", question |-> question, answer |-> final_answer,
                   normalized |-> _normalize_question(question),
                   outcome |-> r.outcome, id |-> r.id,
                   similarity |-> r.similarity, result |-> None,
                   fault |-> NoFault, behind |-> FALSE]

Find(question) ==
    LET r == find_conversation_by_question(
                 Mem, question, DEFAULT_SIMILARITY_THRESHOLD_RETRIEVAL)
    IN /\ Becomes(r.state)
       /\ UNCHANGED <<memory_vars, adding, agent_vars>>
       /\ last' = [op |-> "find", question |-> question, answer |-> "",
                   normalized |-> _normalize_question(question),
                   outcome |-> IF r.result = None THEN "miss" ELSE "hit",
                   id |-> r.id, similarity |-> r.similarity,
                   result |-> r.result, fault |-> NoFault, behind |-> FALSE]

\* The process ends and a new one starts: the globals are as at import.
Restart ==
    /\ Becomes(Globals(Mem))
    /\ UNCHANGED <<memory_vars, adding, agent_vars>>
    /\ last' = [NoCall EXCEPT !.op = "restart"]

\* The persisted index file is removed.
DeleteIndexFile ==
    /\ index_file.exists
    /\ index_file' = NoIndex
    /\ last' = [NoCall EXCEPT !.op = "delete_index"]
    /\ UNCHANGED <<embedding_model, faiss_index, conversations_data,
                   is_initialized, history_file, memory_vars, adding,
                   agent_vars>>

\* add_conversation dies after line 255 (the list is saved) and before line
\* 265 (the index is saved): the process is gone, the files stay.
AddCrash(question, final_answer, limit) ==
    LET r == add_conversation(Mem, question, final_answer,
                              DEFAULT_SIMILARITY_THRESHOLD_DEDUPLICATION)
        s == ensure_initialized(Mem)
    IN /\ r.outcome = "stored"
       /\ Len(r.state.conversations_data) <= limit
       /\ Becomes(Globals([s EXCEPT !.history_file = r.state.history_file]))
       /\ UNCHANGED <<memory_vars, adding, agent_vars>>
       /\ last' = [op |-> "add_crash", question |-> question,
                   answer |-> final_answer,
                   normalized |-> _normalize_question(question),
                   outcome |-> "crashed", id |-> r.id,
                   similarity |-> r.similarity, result |-> None,
                   fault |-> NoFault, behind |-> FALSE]

\* The calls again, the environment failing as fault says.  A call that
\* raised returned nothing: its outcome is "raised".
FaultyInitialize(fault) ==
    LET s == ensure_initialized([Mem EXCEPT !.fault = fault])
    IN /\ Becomes(s)
       /\ UNCHANGED <<memory_vars, adding, agent_vars>>
       /\ last' = [NoCall EXCEPT
                      !.op = "init", !.fault = fault,
                      !.outcome = IF s.raised THEN "raised"
                                  ELSE InitOutcome(Mem, s)]

FaultyAdd(fault, question, final_answer, limit) ==
    LET r == add_conversation([Mem EXCEPT !.fault = fault], question,
                              final_answer,
                              DEFAULT_SIMILARITY_THRESHOLD_DEDUPLICATION)
    IN /\ Len(r.state.conversations_data) <= limit
       /\ Becomes(r.state)
       /\ UNCHANGED <<memory_vars, adding, agent_vars>>
       /\ last' = [op |-> "add", question |-> question, answer |-> final_answer,
                   normalized |-> _normalize_question(question),
                   outcome |-> r.outcome, id |-> r.id,
                   similarity |-> r.similarity, result |-> None,
                   fault |-> fault, behind |-> Behind(Mem)]

FaultyFind(fault, question) ==
    LET r == find_conversation_by_question(
                 [Mem EXCEPT !.fault = fault], question,
                 DEFAULT_SIMILARITY_THRESHOLD_RETRIEVAL)
    IN /\ Becomes(r.state)
       /\ UNCHANGED <<memory_vars, adding, agent_vars>>
       /\ last' = [op |-> "find", question |-> question, answer |-> "",
                   normalized |-> _normalize_question(question),
                   outcome |-> IF r.state.raised THEN "raised"
                               ELSE IF r.result = None THEN "miss" ELSE "hit",
                   id |-> r.id, similarity |-> r.similarity,
                   result |-> r.result, fault |-> fault, behind |-> Behind(Mem)]

\* The index file is one that a model of another dimension has written.
ForeignIndexFile ==
    /\ index_file.exists
    /\ index_file.d = Dimension
    /\ index_file' = [index_file EXCEPT
                         !.d = OtherDimension,
                         !.entries = [i \in 1..Len(index_file.entries) |->
                                         [index_file.entries[i] EXCEPT
                                              !.vector = ForeignVector]]]
    /\ last' = [NoCall EXCEPT !.op = "foreign_index"]
    /\ UNCHANGED <<embedding_model, faiss_index, conversations_data,
                   is_initialized, history_file, memory_vars, adding,
                   agent_vars>>

----------------------------------------------------------------------------
(* modules/memory.py: the MemoryManager of each session.  A memory item is  *)
(* its type and its text; a conversation of the historical file is the      *)
(* session that saved it and its query.                                      *)

Sessions == {"s1", "s2"}
ItemTypes == {"run_metadata", "final_answer"}
Tools == {"t"}

\* Lines 41 and 56: no item, no file.
NoMemory ==
    /\ items = [s \in Sessions |-> <<>>]
    /\ memory_files = [s \in Sessions |-> <<>>]
    /\ historical_conversations = <<>>
    /\ returned = [op |-> "none", session_id |-> "s1", items |-> <<>>]

\* MemoryManager.add (lines 65-67): the item is appended and the list saved.
add(session_id, item) ==
    /\ Len(items[session_id]) < MaxItems
    /\ items' = [items EXCEPT ![session_id] = Append(@, item)]
    /\ memory_files' = [memory_files EXCEPT ![session_id] = items'[session_id]]

\* The call add(item) made from outside the class.
add_item(session_id, type) ==
    /\ add(session_id, [type |-> type, text |-> "text"])
    /\ returned' = [returned EXCEPT !.op = "add"]
    /\ UNCHANGED <<embedding_model, faiss_index, conversations_data,
                   is_initialized, history_file, index_file, last,
                   historical_conversations, adding, agent_vars>>

\* Lines 69-80.
add_tool_call(session_id, tool_name) ==
    /\ add(session_id, [type |-> "tool_call", text |-> tool_name])
    /\ returned' = [returned EXCEPT !.op = "add_tool_call"]
    /\ UNCHANGED <<embedding_model, faiss_index, conversations_data,
                   is_initialized, history_file, index_file, last,
                   historical_conversations, adding, agent_vars>>

\* Lines 102-125: the conversation is appended to the historical file.
save_conversation(session_id, query) ==
    historical_conversations' =
        Append(historical_conversations,
               [session_id |-> session_id, query |-> query])

\* Lines 82-100.
add_tool_output(session_id, tool_name) ==
    /\ add(session_id, [type |-> "tool_output", text |-> tool_name])
    /\ save_conversation(session_id, tool_name)
    /\ returned' = [returned EXCEPT !.op = "add_tool_output"]
    /\ UNCHANGED <<embedding_model, faiss_index, conversations_data,
                   is_initialized, history_file, index_file, last, adding,
                   agent_vars>>

\* The list comprehension of lines 139-151: one item of type "conversation"
\* for every conversation of the file that this session has saved.
RECURSIVE SessionConversations(_, _)
SessionConversations(conversations, session_id) ==
    IF conversations = <<>> THEN <<>>
    ELSE LET conv == Head(conversations)
             rest == SessionConversations(Tail(conversations), session_id)
         IN IF conv.session_id = session_id
            THEN <<[type |-> "conversation", text |-> conv.query,
                    session_id |-> conv.session_id]>> \o rest
            ELSE rest

\* Lines 131-152, the definition that the class keeps: the one of lines
\* 127-129 is replaced by it.
get_session_items(session_id) ==
    /\ returned' = [op |-> "get", session_id |-> session_id,
                    items |-> SessionConversations(historical_conversations,
                                                   session_id)]
    /\ UNCHANGED <<embedding_model, faiss_index, conversations_data,
                   is_initialized, history_file, index_file, last,
                   items, memory_files, historical_conversations, adding,
                   agent_vars>>

NextMemory ==
    \/ \E s \in Sessions, ty \in ItemTypes : add_item(s, ty)
    \/ \E s \in Sessions, tool \in Tools : add_tool_call(s, tool)
    \/ \E s \in Sessions, tool \in Tools : add_tool_output(s, tool)
    \/ \E s \in Sessions : get_session_items(s)

----------------------------------------------------------------------------
(* add_conversation run by threads that no lock serializes.  A thread may   *)
(* be suspended between two statements; a step below is a run of statements *)
(* of one thread that reads or writes the globals or the files once.        *)

Threads == {"t1", "t2"}

\* Two questions that are no duplicates of each other.
ConcurrentQuestions == { <<"a">>, <<"a", "#">> }

\* A thread outside add_conversation.
Idle ==
    [pc |-> "idle", normalized |-> <<>>, final_answer |-> "",
     embedding |-> NoVector, new_id |-> 0, seen |-> 0]

NoThreads == adding = [t \in Threads |-> Idle]

InFlight == {t \in Threads : adding[t].pc # "idle"}

\* Lines 202-231: initialization, the checks of the arguments, the
\* deduplication check and the embedding of the question.  The call returns
\* from here when the question is a duplicate.
Enter(t, question, final_answer, limit) ==
    LET s == ensure_initialized(Mem)
        normalized_question_to_store == _normalize_question(question)
        hit == _search_faiss(s, normalized_question_to_store)
        duplicate ==
            /\ hit.found /\ hit.id # -1
            /\ IsMatch(CosineSimilarity(hit.distance_sq),
                       DEFAULT_SIMILARITY_THRESHOLD_DEDUPLICATION)
    IN /\ adding[t].pc = "idle"
       /\ Len(conversations_data) + Cardinality(InFlight) < limit
       /\ Becomes(s)
       /\ adding' =
              IF duplicate THEN adding
              ELSE [adding EXCEPT ![t] =
                       [pc |-> "new_id",
                        normalized |-> normalized_question_to_store,
                        final_answer |-> final_answer,
                        embedding |-> _get_embedding(
                            s.embedding_model, normalized_question_to_store),
                        new_id |-> 0, seen |-> 0]]
       /\ UNCHANGED <<last, memory_vars, agent_vars>>

\* Lines 236-252: the new id, from the list as it is now.  seen is the
\* length of the list that the id was computed from.
ComputeId(t) ==
    /\ adding[t].pc = "new_id"
    /\ adding' = [adding EXCEPT ![t].pc = "append",
                                ![t].new_id = new_id(conversations_data),
                                ![t].seen = Len(conversations_data)]
    /\ UNCHANGED <<cache_vars, last, memory_vars, agent_vars>>

\* Line 254.
AppendEntry(t) ==
    /\ adding[t].pc = "append"
    /\ conversations_data' =
           Append(conversations_data,
                  [id |-> adding[t].new_id,
                   normalized_question |-> adding[t].normalized,
                   final_answer |-> adding[t].final_answer])
    /\ adding' = [adding EXCEPT ![t].pc = "save"]
    /\ UNCHANGED <<embedding_model, faiss_index, is_initialized, history_file,
                   index_file, last, memory_vars, agent_vars>>

\* Line 255.
SaveJson(t) ==
    /\ adding[t].pc = "save"
    /\ history_file' = _save_conversations_to_json(Mem).history_file
    /\ adding' = [adding EXCEPT ![t].pc = "index"]
    /\ UNCHANGED <<embedding_model, faiss_index, conversations_data,
                   is_initialized, index_file, last, memory_vars, agent_vars>>

\* Lines 258-263; without an index or an embedding the call returns.
IndexAdd(t) ==
    /\ adding[t].pc = "index"
    /\ IF faiss_index.exists /\ adding[t].embedding # NoVector
       THEN /\ faiss_index' = add_with_ids(faiss_index, adding[t].embedding,
                                           adding[t].new_id)
            /\ adding' = [adding EXCEPT ![t].pc = "write"]
       ELSE /\ adding' = [adding EXCEPT ![t] = Idle]
            /\ UNCHANGED faiss_index
    /\ UNCHANGED <<embedding_model, conversations_data, is_initialized,
                   history_file, index_file, last, memory_vars, agent_vars>>

\* Line 264, and the return.
IndexWrite(t) ==
    /\ adding[t].pc = "write"
    /\ index_file' = write_index(Mem).index_file
    /\ adding' = [adding EXCEPT ![t] = Idle]
    /\ UNCHANGED <<embedding_model, faiss_index, conversations_data,
                   is_initialized, history_file, last, memory_vars, agent_vars>>

----------------------------------------------------------------------------
(* core/heuristics.py: QueryHeuristics.  A query is a sequence of tokens,   *)
(* each a piece of text that the patterns read as a whole: "su" and "do"    *)
(* (together "sudo"), a blank, the tag "<b>", the word "x" and the greeting *)
(* "hi".  Of the unsafe patterns of lines 168-179 only (?i)sudo\s+ matches  *)
(* a text made of these tokens; of the substitutions of lines 183-191 only  *)
(* <[^>]*> and \s+ change one.                                               *)

Tokens == {"su", "do", " ", "<b>", "x", "hi"}

QueryLen == 5

Queries == UNION {[1..n -> Tokens] : n \in 0..QueryLen}

\* Lines 194-196: re.search of (?i)sudo\s+ (line 169).
_contains_unsafe_pattern(query) ==
    \E i \in 1..(Len(query) - 2) :
        query[i] = "su" /\ query[i + 1] = "do" /\ query[i + 2] = " "

\* re.sub(r"<[^>]*>", "", result) (line 187).
remove_tags(text) == SelectSeq(text, LAMBDA t : t # "<b>")

\* re.sub(r"\s+", " ", result) (lines 191 and 207).
RECURSIVE collapse_whitespace(_)
collapse_whitespace(text) ==
    IF Len(text) < 2 THEN text
    ELSE IF text[1] = " " /\ text[2] = " " THEN collapse_whitespace(Tail(text))
    ELSE <<Head(text)>> \o collapse_whitespace(Tail(text))

\* Lines 198-203.
_sanitize_input(query) == strip(collapse_whitespace(remove_tags(strip(query))))

\* Lines 205-209: the blanks are collapsed and one leading greeting, with the
\* blanks after it, is removed.
_normalize_query(query) ==
    LET collapsed == collapse_whitespace(strip(query))
    IN IF Len(collapsed) >= 2 /\ collapsed[1] = "hi" /\ collapsed[2] = " "
       THEN SubSeq(collapsed, 3, Len(collapsed))
       ELSE collapsed

\* Lines 211-227: the text returned and is_safe.  The unsafe patterns are
\* searched in the query as it came, before it is sanitized.
process_query(query) ==
    IF query = <<>> THEN [text |-> <<>>, is_safe |-> FALSE]
    ELSE IF _contains_unsafe_pattern(query)
    THEN [text |-> query, is_safe |-> FALSE]
    ELSE LET sanitized == _sanitize_input(query)
             normalized == _normalize_query(sanitized)
         IN IF sanitized = <<>> THEN [text |-> <<>>, is_safe |-> FALSE]
            ELSE IF normalized = <<>> THEN [text |-> <<>>, is_safe |-> FALSE]
            ELSE [text |-> normalized, is_safe |-> TRUE]

NoQuery == [query |-> <<>>, text |-> <<>>, is_safe |-> FALSE, called |-> FALSE]

\* process_query is called on the query.
ProcessQuery ==
    /\ ~processed.called
    /\ processed' = [query |-> processed.query,
                     text |-> process_query(processed.query).text,
                     is_safe |-> process_query(processed.query).is_safe,
                     called |-> TRUE]
    /\ UNCHANGED <<cache_vars, last, memory_vars, adding, main>>

----------------------------------------------------------------------------
(* agent.py: main.  What the user types and what the agent answers are      *)
(* inputs; AgentLoop.run is outside this module and returns any of the four *)
(* kinds of result that main tells apart.                                    *)

MaxContexts == 3

\* What the user types, and what follows FURTHER_PROCESSING_REQUIRED: in an
\* answer.
UserInputs ==
    { <<>>, <<"x">>, <<"<b>">>, <<"hi", " ", "x">>, <<" ", "x", "<b>">>,
      <<"su", "do", " ", "x">>, <<"su", "<b>", "do", " ", "x">> }

Results == {"final_answer", "further_processing", "raw", "unexpected"}

NoSession == 0

NoContext == [user_input |-> <<>>, session_id |-> NoSession, follow_up |-> FALSE]

\* Lines 21-22, and no context created yet.  uuids counts the calls of
\* uuid.uuid4(), contexts the contexts created; renewed tells that 'new' was
\* typed after the last context was created.
MainStart ==
    [pc |-> "input", user_input |-> <<>>, processed_input |-> <<>>,
     is_safe |-> FALSE, current_session |-> NoSession, follow_up |-> FALSE,
     uuids |-> 0, contexts |-> 0, context |-> NoContext, renewed |-> FALSE]

NoAgent == main = MainStart /\ processed = NoQuery

\* str(uuid.uuid4()): the n-th call returns n, an id no call has returned.
uuid4(n) == n + 1

\* Mutant: the context is given the input as it was read.
context_input_raw(user_input, processed_input) == user_input

\* Line 49: user_input=processed_input.
context_input(user_input, processed_input) == processed_input

\* Mutant: every context generates its session id.
AgentContext_generating(user_input, session_id, uuids) ==
    [user_input |-> user_input, session_id |-> uuid4(uuids)]

\* core/context.py, lines 50-51.
AgentContext(user_input, session_id, uuids) ==
    [user_input |-> user_input,
     session_id |-> IF session_id # NoSession THEN session_id ELSE uuid4(uuids)]

\* Lines 35-36.
ExitCommand ==
    /\ main.pc = "input"
    /\ main' = [main EXCEPT !.pc = "exit"]
    /\ UNCHANGED <<cache_vars, last, memory_vars, adding, processed>>

\* Lines 37-39.
NewCommand ==
    /\ main.pc = "input"
    /\ main' = [main EXCEPT !.current_session = NoSession, !.renewed = TRUE]
    /\ UNCHANGED <<cache_vars, last, memory_vars, adding, processed>>

\* Lines 34 and 41-45: a query is read and vetted; an unsafe one is dropped.
Query(user_input) ==
    LET r == process_query(user_input)
    IN /\ main.pc = "input"
       /\ main' = [main EXCEPT !.user_input = user_input,
                               !.processed_input = r.text,
                               !.is_safe = r.is_safe,
                               !.follow_up = FALSE,
                               !.pc = IF r.is_safe THEN "run" ELSE "input"]
       /\ UNCHANGED <<cache_vars, last, memory_vars, adding, processed>>

\* Lines 48-80, one turn of the inner loop: a context is created (its
\* constructor saves the start of the run to the historical file,
\* core/context.py lines 75-86 and 107-110), the agent runs, and its result
\* ends the loop or is vetted as the next input.
Run(result, answer) ==
    LET context == AgentContext(
                       context_input(main.user_input, main.processed_input),
                       main.current_session, main.uuids)
        user_input == strip(answer)
        r == process_query(user_input)
        created ==
            [main EXCEPT
                !.context = [user_input |-> context.user_input,
                             session_id |-> context.session_id,
                             follow_up |-> main.follow_up],
                !.contexts = @ + 1,
                !.renewed = FALSE,
                !.uuids = IF main.current_session = NoSession THEN @ + 1 ELSE @,
                !.current_session = IF main.current_session = NoSession
                                    THEN context.session_id ELSE @]
    IN /\ main.pc = "run"
       /\ main.contexts < MaxContexts
       /\ historical_conversations' =
              Append(historical_conversations,
                     [session_id |-> context.session_id,
                      query |-> context.user_input])
       /\ main' = IF result = "further_processing"
                  THEN [created EXCEPT
                           !.user_input = user_input,
                           !.processed_input = r.text,
                           !.is_safe = r.is_safe,
                           !.follow_up = r.is_safe,
                           !.pc = IF r.is_safe THEN "run" ELSE "input"]
                  ELSE [created EXCEPT !.pc = "input", !.follow_up = FALSE]
       /\ UNCHANGED <<cache_vars, last, items, memory_files, returned, adding,
                      processed>>

Init ==
    /\ embedding_model = None
    /\ faiss_index = NoIndex
    /\ conversations_data = <<>>
    /\ is_initialized = FALSE
    /\ history_file = <<>>
    /\ index_file = NoIndex
    /\ last = NoCall
    /\ NoMemory
    /\ NoThreads
    /\ NoAgent

Next ==
    \/ Initialize
    \/ \E q \in Questions, a \in Answers : Add(q, a, MaxRecords)
    \/ \E q \in Questions : Find(q)
    \/ Restart
    \/ DeleteIndexFile
    \/ \E q \in Questions, a \in Answers : AddCrash(q, a, MaxRecords)

Spec == Init /\ [][Next]_vars

----------------------------------------------------------------------------
(* A second start: the files are those that SeedSize adds, of the          *)
(* questions "a", "aa", "aaa", ... in turn, have left.                      *)

SeedQuestion(k) == [i \in 1..k |-> "a"]

Start ==
    [embedding_model |-> None, faiss_index |-> NoIndex,
     conversations_data |-> <<>>, is_initialized |-> FALSE,
     history_file |-> <<>>, index_file |-> NoIndex,
     fault |-> NoFault, raised |-> FALSE]

\* The state after add_conversation(SeedQuestion(k), "x") for k = 1 .. n,
\* from empty files.
RECURSIVE Seeded(_)
Seeded(n) ==
    IF n = 0 THEN Start
    ELSE add_conversation(Seeded(n - 1), SeedQuestion(n), "x",
                          DEFAULT_SIMILARITY_THRESHOLD_DEDUPLICATION).state

InitSeeded ==
    /\ StateIs(Globals(Seeded(SeedSize)))
    /\ Len(history_file) = SeedSize
    /\ last = NoCall
    /\ NoMemory
    /\ NoThreads
    /\ NoAgent

NextSeeded ==
    \/ Initialize
    \/ \E q \in Questions, a \in Answers : Add(q, a, SeedSize + 1)
    \/ \E q \in Questions : Find(q)
    \/ Restart
    \/ DeleteIndexFile
    \/ \E q \in Questions, a \in Answers : AddCrash(q, a, SeedSize + 1)

SpecSeeded == InitSeeded /\ [][NextSeeded]_vars

\* The memory managers alone.
SpecMemory == Init /\ [][NextMemory]_vars

----------------------------------------------------------------------------
(* The cache in an environment that fails: from no files, and from the     *)
(* files that SeedSize + 1 adds have left.                                  *)

NextFaults ==
    \/ \E f \in Faults : FaultyInitialize(f)
    \/ \E f \in Faults, q \in FaultQuestions, a \in FaultAnswers :
           FaultyAdd(f, q, a, MaxRecords)
    \/ \E f \in Faults, q \in FaultQuestions : FaultyFind(f, q)
    \/ Restart

SpecFaults == Init /\ [][NextFaults]_vars

\* A question the seeded store holds, and two it does not, which are no
\* duplicates of a seeded question or of each other.
SeededQuestions == { <<"a">>, <<"a", "#">>, <<"a", "#", "#">> }

\* The environment in which no write fails.
NextLoadFaults ==
    \/ \E f \in LoadFaults : FaultyInitialize(f)
    \/ \E f \in LoadFaults, q \in FaultQuestions, a \in FaultAnswers :
           FaultyAdd(f, q, a, MaxRecords)
    \/ \E f \in LoadFaults, q \in FaultQuestions : FaultyFind(f, q)
    \/ Restart
    \/ \E q \in FaultQuestions, a \in FaultAnswers : AddCrash(q, a, MaxRecords)

SpecLoadFaults == Init /\ [][NextLoadFaults]_vars

InitSeededFaults ==
    /\ StateIs(Globals(Seeded(SeedSize + 1)))
    /\ Len(history_file) = SeedSize + 1
    /\ last = NoCall
    /\ NoMemory
    /\ NoThreads
    /\ NoAgent

NextSeededFaults ==
    \/ \E f \in WriteFaults : FaultyInitialize(f)
    \/ \E f \in WriteFaults, q \in SeededQuestions, a \in FaultAnswers :
           FaultyAdd(f, q, a, SeedSize + 2)
    \/ \E f \in WriteFaults, q \in SeededQuestions : FaultyFind(f, q)
    \/ Restart
    \/ ForeignIndexFile
    \/ \E q \in SeededQuestions, a \in FaultAnswers : AddCrash(q, a, SeedSize + 2)

SpecSeededFaults == InitSeededFaults /\ [][NextSeededFaults]_vars

----------------------------------------------------------------------------
(* The cache in an environment in which nothing fails: the model loads,     *)
(* every embedding and every write succeeds, and a process ends only         *)
(* between two calls.                                                        *)

NextNoFailures ==
    \/ Initialize
    \/ \E q \in Questions, a \in Answers : Add(q, a, MaxRecords)
    \/ \E q \in Questions : Find(q)
    \/ Restart

SpecNoFailures == Init /\ [][NextNoFailures]_vars

----------------------------------------------------------------------------
(* Two threads in add_conversation, from no files *)

NextConcurrent ==
    \/ \E t \in Threads, q \in ConcurrentQuestions, a \in FaultAnswers :
           Enter(t, q, a, MaxRecords)
    \/ \E t \in Threads : ComputeId(t)
    \/ \E t \in Threads : AppendEntry(t)
    \/ \E t \in Threads : SaveJson(t)
    \/ \E t \in Threads : IndexAdd(t)
    \/ \E t \in Threads : IndexWrite(t)

SpecConcurrent == Init /\ [][NextConcurrent]_vars

----------------------------------------------------------------------------
(* process_query alone, on every query of at most QueryLen tokens *)

InitHeuristics ==
    /\ StateIs(Start)
    /\ last = NoCall
    /\ NoMemory
    /\ NoThreads
    /\ main = MainStart
    /\ \E q \in Queries : processed = [NoQuery EXCEPT !.query = q]

NextHeuristics == ProcessQuery

SpecHeuristics == InitHeuristics /\ [][NextHeuristics]_vars

----------------------------------------------------------------------------
(* The main loop of the agent *)

NextAgent ==
    \/ ExitCommand
    \/ NewCommand
    \/ \E u \in UserInputs : Query(u)
    \/ \E result \in Results, answer \in UserInputs : Run(result, answer)

SpecAgent == Init /\ [][NextAgent]_vars

----------------------------------------------------------------------------
(* Normalization alone, on every text of at most NormLen characters *)

InitNormalize ==
    /\ embedding_model = None
    /\ faiss_index = NoIndex
    /\ conversations_data = <<>>
    /\ is_initialized = FALSE
    /\ history_file = <<>>
    /\ index_file = NoIndex
    /\ last \in {[NoCall EXCEPT !.question = t] : t \in Texts(NormLen)}
    /\ NoMemory
    /\ NoThreads
    /\ NoAgent

Normalize ==
    /\ last.op = "none"
    /\ last' = [last EXCEPT !.op = "normalize",
                            !.normalized = _normalize_question(last.question)]
    /\ UNCHANGED <<embedding_model, faiss_index, conversations_data,
                   is_initialized, history_file, index_file,
                   memory_vars, adding, agent_vars>>

\* The normalized text is normalized again.
Renormalize ==
    /\ last.op = "normalize"
    /\ last' = [last EXCEPT !.op = "renormalize",
                            !.question = last.normalized,
                            !.normalized = _normalize_question(last.normalized)]
    /\ UNCHANGED <<embedding_model, faiss_index, conversations_data,
                   is_initialized, history_file, index_file,
                   memory_vars, adding, agent_vars>>

NextNormalize == Normalize \/ Renormalize

SpecNormalize == InitNormalize /\ [][NextNormalize]_vars

----------------------------------------------------------------------------
(* Claims *)

\* What find(question) returns in this state, with the default threshold.
FindAnswer(question) ==
    find_conversation_by_question(
        Mem, question, DEFAULT_SIMILARITY_THRESHOLD_RETRIEVAL).result

Similarity(t1, t2) == CosineSimilarity(DistanceSq(encode(t1), encode(t2)))

\* The last call was an add with a question that normalizes to a non-empty
\* text and a non-empty answer.
ValidAdd(call) ==
    call.op = "add" /\ call.normalized # <<>> /\ call.answer # ""

HasRecord(data, id, normalized_question, final_answer) ==
    \E i \in 1..Len(data) :
        data[i] = [id |-> id, normalized_question |-> normalized_question,
                   final_answer |-> final_answer]

\* C1 as stated: after add(Q, A) with Q and A non-empty, find(Q) returns A,
\* whatever the cache held before.
C1_RoundTripAlways == ValidAdd(last) => FindAnswer(last.question) = last.answer

\* C1 amended: after an add(Q, A) that stored its record (it was neither
\* rejected nor suppressed as a duplicate), find(Q) returns A.
C1_RoundTripWhenStored ==
    (last.op = "add" /\ last.outcome = "stored")
        => FindAnswer(last.question) = last.answer

\* An add stored a second record, and find returns its answer.
C1_Witness ==
    /\ last.op = "add" /\ last.outcome = "stored"
    /\ Len(conversations_data) = 2
    /\ FindAnswer(last.question) = last.answer
    /\ conversations_data[1].final_answer # last.answer

\* C2 as stated: an add(Q', A') that follows an add(Q, A), with the
\* similarity of Q and Q' at or above the threshold, leaves the store as it
\* was and issues no id.
C2_SuppressedAfterAnyAdd ==
    [][(/\ ValidAdd(last)
        /\ last'.op = "add"
        /\ Similarity(last.normalized, last'.normalized)
               >= DEFAULT_SIMILARITY_THRESHOLD_DEDUPLICATION)
       => (last'.outcome # "stored" /\ conversations_data' = conversations_data)
      ]_vars

\* C2 amended: the same, when the first add stored its record.
C2_SuppressedAfterStoredAdd ==
    [][(/\ last.op = "add" /\ last.outcome = "stored"
        /\ last'.op = "add"
        /\ Similarity(last.normalized, last'.normalized)
               >= DEFAULT_SIMILARITY_THRESHOLD_DEDUPLICATION)
       => (/\ last'.outcome # "stored"
           /\ conversations_data' = conversations_data
           /\ history_file' = history_file)
      ]_vars

\* An add of another text was suppressed against the latest record.
C2_Witness ==
    /\ last.op = "add" /\ last.outcome = "duplicate"
    /\ Len(conversations_data) = 2
    /\ last.id = conversations_data[2].id
    /\ last.normalized # conversations_data[2].normalized_question
    /\ last.answer # conversations_data[2].final_answer

\* Q2 is below the dedup threshold to every question the index holds.
BelowEveryIndexed(index, normalized) ==
    \A i \in 1..Len(index.entries) :
        CosineSimilarity(DistanceSq(index.entries[i].vector, encode(normalized)))
            < DEFAULT_SIMILARITY_THRESHOLD_DEDUPLICATION

BothStored(first, second, data) ==
    /\ HasRecord(data, first.id, first.normalized, first.answer)
    /\ HasRecord(data, second.id, second.normalized, second.answer)
    /\ first.id # second.id
    /\ second.id > first.id

\* C3 as stated: add(Q1, A1) followed by add(Q2, A2), Q2 non-empty after
\* normalization and below the threshold to every indexed question, leaves
\* both records in the store, the id of Q2 greater than the id of Q1.
C3_DistinctAfterAnyAdd ==
    [][(/\ ValidAdd(last)
        /\ ValidAdd(last')
        /\ BelowEveryIndexed(faiss_index, last'.normalized))
       => (/\ HasRecord(conversations_data', last'.id, last'.normalized,
                        last'.answer)
           /\ \E i \in 1..Len(conversations_data') :
                  LET r == conversations_data'[i]
                  IN /\ r.normalized_question = last.normalized
                     /\ r.final_answer = last.answer
                     /\ r.id < last'.id)
      ]_vars

\* C3 amended: the same, when add(Q1, A1) stored its record and A2 is not
\* empty.
C3_DistinctAfterStoredAdd ==
    [][(/\ last.op = "add" /\ last.outcome = "stored"
        /\ ValidAdd(last')
        /\ BelowEveryIndexed(faiss_index, last'.normalized))
       => (last'.outcome = "stored" /\ BothStored(last, last', conversations_data'))
      ]_vars

\* Two adds in a row stored records 1 and 2.
C3_Witness ==
    /\ last.op = "add" /\ last.outcome = "stored" /\ last.id = 2
    /\ Len(conversations_data) = 2
    /\ conversations_data[1].id = 1
    /\ conversations_data[2].normalized_question = last.normalized
    /\ index_file.entries = <<[id |-> 1, vector |-> encode(conversations_data[1].normalized_question)],
                              [id |-> 2, vector |-> encode(last.normalized)]>>

StrictlyIncreasing(data) ==
    \A i, j \in 1..Len(data) : i < j => data[i].id < data[j].id

\* C4: the ids of the records, in memory and in the file, are strictly
\* increasing in insertion order (so pairwise distinct), and an add that
\* stores a record issues the greatest id of the store it found plus one, or
\* 1 when that store was empty.
C4_IdsIncreasing ==
    /\ [](StrictlyIncreasing(conversations_data) /\ StrictlyIncreasing(history_file))
    /\ [][(last'.op \in {"add", "add_crash"} /\ last'.outcome \in {"stored", "crashed"})
          => LET found == ensure_initialized(Mem).conversations_data
                 ids == {found[i].id : i \in 1..Len(found)}
             IN /\ last'.id = IF ids = {} THEN 1
                              ELSE 1 + CHOOSE m \in ids : \A n \in ids : n <= m
                /\ history_file' = Append(found,
                       [id |-> last'.id, normalized_question |-> last'.normalized,
                        final_answer |-> last'.answer])
         ]_vars

\* An add found record 1 in the store and stored record 2.
C4_Witness ==
    /\ last.op = "add" /\ last.outcome = "stored" /\ last.id = 2
    /\ conversations_data = history_file
    /\ Len(history_file) = 2
    /\ history_file[1].id = 1 /\ history_file[2].id = 2

\* The greatest similarity of a text to the vectors of the entries.
BestSimilarity(entries, normalized) ==
    LET sims == {CosineSimilarity(DistanceSq(entries[i].vector, encode(normalized))) :
                    i \in 1..Len(entries)}
    IN CHOOSE m \in sims : \A n \in sims : n <= m

\* The entries an add or a find searched: all of them, but for the one a
\* storing add has just appended.
SearchedEntries ==
    IF last.op = "add" /\ last.outcome = "stored" /\ Len(faiss_index.entries) > 0
    THEN SubSeq(faiss_index.entries, 1, Len(faiss_index.entries) - 1)
    ELSE faiss_index.entries

\* C5: the similarity a call logs is that of the nearest indexed question;
\* when it equals the threshold it is a match (the add is skipped, the find
\* returns the answer of the matched record), and below it, it is none.
C5_ThresholdBoundary ==
    /\ (last.op \in {"add", "find"} /\ last.similarity # -200)
           => /\ SearchedEntries # <<>>
              /\ last.similarity = BestSimilarity(SearchedEntries, last.normalized)
    /\ (ValidAdd(last) /\ last.similarity = DEFAULT_SIMILARITY_THRESHOLD_DEDUPLICATION)
           => last.outcome = "duplicate"
    /\ (ValidAdd(last) /\ last.similarity # -200
           /\ last.similarity < DEFAULT_SIMILARITY_THRESHOLD_DEDUPLICATION)
           => last.outcome = "stored"
    /\ (last.op = "find" /\ last.similarity = DEFAULT_SIMILARITY_THRESHOLD_RETRIEVAL)
           => /\ HasId(conversations_data, last.id)
              /\ last.result = ById(conversations_data, last.id).final_answer
              /\ last.result # None
    /\ (last.op = "find" /\ last.similarity # -200
           /\ last.similarity < DEFAULT_SIMILARITY_THRESHOLD_RETRIEVAL)
           => last.result = None

\* A find whose nearest neighbour is exactly at the retrieval threshold
\* returned an answer.
C5_Witness ==
    /\ last.op = "find"
    /\ last.similarity = DEFAULT_SIMILARITY_THRESHOLD_RETRIEVAL
    /\ last.result \in {"x", "y"}

\* C6: a find returns None when the index is empty or holds no question with
\* a similarity at or above the retrieval threshold.
C6_NoMatchUnrelated ==
    (/\ last.op = "find"
     /\ \A i \in 1..Len(faiss_index.entries) :
            CosineSimilarity(DistanceSq(faiss_index.entries[i].vector,
                                        encode(last.normalized)))
                < DEFAULT_SIMILARITY_THRESHOLD_RETRIEVAL)
        => last.result = None

\* A find of a question far from the indexed ones returned None.
C6_Witness ==
    /\ last.op = "find" /\ last.normalized # <<>>
    /\ Len(faiss_index.entries) > 0
    /\ last.similarity # -200
    /\ last.similarity < DEFAULT_SIMILARITY_THRESHOLD_RETRIEVAL
    /\ last.result = None

\* C7 as stated: for a question that does not begin with the marker,
\* find("#" + Q) returns what find(Q) returned.
C7_MarkedFindSame ==
    (last.op = "find" /\ ~startswith(last.question, "#"))
        => FindAnswer(<<"#">> \o last.question) = last.result

\* C7 amended: for a question whose trimmed text does not begin with the
\* marker, find("#" + Q) returns what find(Q) returned.
C7_MarkedFindSameTrimmed ==
    (last.op = "find" /\ ~startswith(strip(last.question), "#"))
        => FindAnswer(<<"#">> \o last.question) = last.result

\* A find of a padded question returned an answer, and so does the marked one.
C7_Witness ==
    /\ last.op = "find" /\ last.question = <<" ", "a", " ">>
    /\ last.result \in {"x", "y"}
    /\ FindAnswer(<<"#">> \o last.question) = last.result

\* C8 as stated: normalizing a normalized text gives the same text, for
\* every text.
C8_Idempotent ==
    last.op = "renormalize" => last.normalized = last.question

\* C8 amended: normalizing a normalized text gives the same text when the
\* normalized text does not begin with the marker (the text had at most one
\* leading marker to strip).
C8_IdempotentOneMarker ==
    (last.op = "renormalize" /\ ~startswith(last.question, "#"))
        => last.normalized = last.question

\* A text that lost its marker and its blanks was normalized again.
C8_Witness ==
    /\ last.op = "renormalize"
    /\ last.question = <<"a", " ", "a">>
    /\ last.normalized = last.question

\* The state after the index file is removed and the process starts again.
Reloaded == ensure_initialized(Globals([Mem EXCEPT !.index_file = NoIndex]))

\* C9: once the index file is removed and the cache initialized again, the
\* index has as many entries as the store has records, and every find
\* returns what it returned before.
C9_RebuildCorrect ==
    is_initialized
        => /\ ntotal(Reloaded.faiss_index) = Len(Reloaded.conversations_data)
           /\ \A q \in Questions :
                  find_conversation_by_question(
                      Reloaded, q, DEFAULT_SIMILARITY_THRESHOLD_RETRIEVAL).result
                      = FindAnswer(q)

IndexCoversStore ==
    \A i \in 1..Len(conversations_data) :
        \E j \in 1..Len(faiss_index.entries) :
            faiss_index.entries[j].id = conversations_data[i].id

\* C10: the initialization that follows a crash between the two saves of an
\* add leaves an index that holds a vector for every record of the store.
C10_CrashHeals ==
    [][(last.op = "add_crash" /\ is_initialized') => IndexCoversStore']_vars

\* C11: in every state, every id the vector index holds is the id of a
\* record of the record store.
C11_IndexIdsInStore ==
    \A j \in 1..Len(faiss_index.entries) :
        HasId(conversations_data, faiss_index.entries[j].id)

\* C16: a find whose nearest neighbour is at or above the retrieval
\* threshold, under an id that no record of the store has, returns None: it
\* does not raise and returns no other record's answer.
C16_OrphanIdNoMatch ==
    (/\ last.op = "find"
     /\ last.similarity >= DEFAULT_SIMILARITY_THRESHOLD_RETRIEVAL
     /\ ~HasId(conversations_data, last.id))
        => (last.outcome = "miss" /\ last.result = None)

\* A find matched, at similarity 100, an id that the store does not hold,
\* and returned None.
C16_Witness ==
    /\ last.op = "find" /\ last.similarity = 100
    /\ conversations_data # <<>>
    /\ ~HasId(conversations_data, last.id)
    /\ last.outcome = "miss" /\ last.result = None

\* The process holds no model and will not load one: the load has failed, or
\* fails in the call that begins.
StoreOnly(fault) ==
    /\ embedding_model = None
    /\ is_initialized \/ fault.model_load_fails

NewRecord(call) ==
    [id |-> call.id, normalized_question |-> call.normalized,
     final_answer |-> call.answer]

IsPrefix(data, longer) ==
    /\ Len(data) <= Len(longer)
    /\ \A i \in 1..Len(data) : longer[i] = data[i]

\* C13: no step (an initialization, with or without a model, an add, a find,
\* a restart) removes or changes a record of the record file: what the file
\* held, it still holds, with the same id, question and answer.
C13_RecordsKept == [][IsPrefix(history_file, history_file')]_vars

\* The last call was made with a model loaded and a question on which the
\* provider fails.
EmbeddingFailed ==
    /\ last.op \in {"add", "find"}
    /\ embedding_model # None
    /\ last.normalized \in last.fault.unembeddable

\* C14: when the provider fails on the text of a call, an add with a valid
\* question and answer returns with its record stored and no vector added
\* under the record's id, a find returns None, and neither raises.
C14_EmbeddingFailureContained ==
    EmbeddingFailed
        => /\ last.outcome # "raised"
           /\ ValidAdd(last)
                 => /\ last.outcome = "stored"
                    /\ HasRecord(conversations_data, last.id, last.normalized,
                                 last.answer)
                    /\ \A j \in 1..Len(faiss_index.entries) :
                           faiss_index.entries[j].id # last.id
           /\ last.op = "find" => last.result = None

WriteFailed(fault) == fault.json_write_fails \/ fault.index_write_fails

\* C15: an add in which the write of a file fails returns as any other add,
\* its record in memory; and an add that stores a record leaves, when the
\* write of the record file succeeds, the file equal to the list in memory,
\* and, when the write of the index file succeeds, the file equal to the
\* index in memory, whatever the files lacked before.
C15_PersistenceFailureReconciled ==
    [][(last'.op = "add")
       => /\ (WriteFailed(last'.fault) /\ ValidAdd(last'))
                => /\ last'.outcome \in {"stored", "duplicate"}
                   /\ last'.outcome = "stored"
                         => conversations_data' =
                                Append(ensure_initialized(
                                           [Mem EXCEPT !.fault = last'.fault]
                                       ).conversations_data,
                                       NewRecord(last'))
          /\ (last'.outcome = "stored" /\ ~last'.fault.json_write_fails)
                => history_file' = conversations_data'
          /\ (last'.outcome = "stored" /\ ~last'.fault.index_write_fails
                 /\ faiss_index'.exists)
                => index_file' = faiss_index'
      ]_vars

\* The files lacked what the memory held, and an add whose writes succeeded
\* has left both files equal to the memory.
C15_Witness ==
    /\ last.op = "add" /\ last.outcome = "stored" /\ last.fault = NoFault
    /\ last.behind
    /\ Len(conversations_data) = 2 /\ history_file = conversations_data
    /\ Len(faiss_index.entries) = 2 /\ index_file = faiss_index

\* One entry for every record whose question the provider embeds, under the
\* record's id, in the order of the records.
RECURSIVE EntriesOf(_, _)
EntriesOf(data, unembeddable) ==
    IF data = <<>> THEN <<>>
    ELSE LET rest == EntriesOf(Tail(data), unembeddable)
             conv == Head(data)
         IN IF conv.normalized_question \in unembeddable THEN rest
            ELSE <<[id |-> conv.id, vector |-> encode(conv.normalized_question)]>>
                     \o rest

\* The index file is to be discarded at load.
MustRebuild ==
    /\ index_file.exists
    /\ \/ index_file.d # Dimension
       \/ 10 * Abs(Len(index_file.entries) - Len(history_file)) > Len(history_file)

\* C17: an initialization that loads the model and finds an index file of
\* another dimension, or one whose size is more than a tenth of the store's
\* size away from it, leaves an index of the model's dimension that holds one
\* entry for every embeddable record of the store, under the record's id, and
\* nothing else.
C17_RebuildPolicy ==
    [][(/\ last'.op = "init"
        /\ ~is_initialized /\ ~last'.fault.model_load_fails
        /\ MustRebuild)
       => /\ faiss_index'.exists /\ faiss_index'.d = Dimension
          /\ faiss_index'.entries =
                 EntriesOf(history_file, last'.fault.unembeddable)
      ]_vars

\* The question or the answer of the call is empty, or the question
\* normalizes to the empty text.
RejectedInput(call) ==
    call.question = <<>> \/ call.answer = "" \/ call.normalized = <<>>

\* C18 as stated: an add with such an input leaves the store and the index
\* in memory and both files unchanged, and issues no id.
C18_RejectedNoOp ==
    [][(last'.op = "add" /\ RejectedInput(last'))
       => /\ UNCHANGED <<conversations_data, faiss_index, history_file,
                         index_file>>
          /\ last'.id = 0
      ]_vars

\* C18 amended: an add with such an input appends no record, issues no id
\* and leaves the store, the index and the files as the initialization it
\* begins with leaves them: unchanged when the cache was initialized.
C18_RejectedOnlyInitializes ==
    [][(last'.op = "add" /\ RejectedInput(last'))
       => LET s == ensure_initialized([Mem EXCEPT !.fault = last'.fault])
          IN /\ last'.id = 0
             /\ last'.outcome = IF s.raised THEN "raised" ELSE "rejected"
             /\ conversations_data' = s.conversations_data
             /\ faiss_index' = s.faiss_index
             /\ history_file' = s.history_file
             /\ index_file' = s.index_file
             /\ history_file' = history_file
             /\ is_initialized
                   => UNCHANGED <<conversations_data, faiss_index, index_file>>
      ]_vars

\* An initialized cache that holds a record rejected a question made of the
\* marker alone.
C18_Witness ==
    /\ last.op = "add" /\ last.outcome = "rejected"
    /\ last.question = <<"#">> /\ last.answer = "x" /\ last.id = 0
    /\ Len(conversations_data) = 1 /\ history_file = conversations_data
    /\ Len(faiss_index.entries) = 1 /\ index_file = faiss_index

\* C20: the record file is written before the index file, so that at every
\* instant, a crash between the two writes included and no write failing,
\* every id of the index file is the id of a record of the record file.
C20_PersistedIndexWithinStore ==
    \A j \in 1..Len(index_file.entries) :
        HasId(history_file, index_file.entries[j].id)

\* C19: get_session_items returns one item for every item that was added in
\* the session, by add, add_tool_call or add_tool_output, and no item of
\* another session.
C19_AllSessionItems ==
    returned.op = "get"
        => /\ Len(returned.items) = Len(items[returned.session_id])
           /\ \A i \in 1..Len(returned.items) :
                  returned.items[i].session_id = returned.session_id

\* C21: once ensure_initialized has completed, with or without a model, a
\* later call of it changes nothing, and the one at the start of an add or a
\* find loads and builds nothing: the model and the flag stay, a call that
\* stored no record leaves the globals and the files as they were, and an
\* add that stored one has appended it to the list the process held and
\* added at most its vector to the index the process held.
C21_InitIdempotent ==
    [][(is_initialized /\ last'.op \in {"init", "add", "find"})
       => /\ embedding_model' = embedding_model /\ is_initialized'
          /\ last'.outcome # "stored" => UNCHANGED cache_vars
          /\ last'.outcome = "stored"
                => /\ conversations_data' =
                          Append(conversations_data, NewRecord(last'))
                   /\ faiss_index' \in
                          {faiss_index,
                           add_with_ids(faiss_index, encode(last'.normalized),
                                        last'.id)}
      ]_vars

\* An initialization in a process that had completed one without a model,
\* in an environment in which the model would load, beside a record file
\* that holds records: nothing was loaded.
C21_Witness ==
    /\ last.op = "init" /\ last.outcome = "already" /\ last.fault = NoFault
    /\ is_initialized /\ embedding_model = None
    /\ conversations_data = <<>> /\ history_file # <<>>

\* C22: in an initialized process a find, whatever it returns, changes
\* neither the list, the index nor a file.
C22_FindReadOnly ==
    [][(is_initialized /\ last'.op = "find")
       => UNCHANGED <<conversations_data, faiss_index, history_file,
                      index_file>>]_vars

\* A find returned an answer in a process whose record file is behind its
\* list, and the file is still behind.
C22_Witness ==
    /\ last.op = "find" /\ last.outcome = "hit" /\ last.behind
    /\ history_file # conversations_data

\* C23: in a process whose initialization has completed, after the
\* initialization and after every add that returned, in an environment in
\* which every file write succeeds, the record file holds the list and the
\* index file holds the index, when the process has one.
C23_Durable ==
    (/\ is_initialized /\ last.op \in {"init", "add"}
     /\ last.outcome # "raised")
        => /\ history_file = conversations_data
           /\ faiss_index.exists => index_file = faiss_index

IndexIds(index) == {index.entries[j].id : j \in 1..Len(index.entries)}

\* C24: no two entries of the index, in memory or in its file, have the
\* same id.
C24_IndexIdsUnique ==
    /\ Cardinality(IndexIds(faiss_index)) = Len(faiss_index.entries)
    /\ Cardinality(IndexIds(index_file)) = Len(index_file.entries)

\* C26: a find that returned an answer returned the answer of a record of
\* the list that has the matched id and whose normalized question is, to the
\* question asked, at or above the retrieval threshold.
C26_AnswerOfMatchedQuestion ==
    (last.op = "find" /\ last.result # None)
        => \E i \in 1..Len(conversations_data) :
               /\ conversations_data[i].id = last.id
               /\ conversations_data[i].final_answer = last.result
               /\ Similarity(conversations_data[i].normalized_question,
                             last.normalized)
                      >= DEFAULT_SIMILARITY_THRESHOLD_RETRIEVAL

\* C27: after an add that was skipped as a duplicate, the matched id is the
\* id of a record of the list, and a find of the same question returns that
\* record's answer.
C27_SuppressedAnswerable ==
    (last.op = "add" /\ last.outcome = "duplicate")
        => /\ HasId(conversations_data, last.id)
           /\ FindAnswer(last.question)
                  = ById(conversations_data, last.id).final_answer

\* C28: where nothing fails, the ids of the index of an initialized process
\* are the ids of its list, and the ids of the index file are the ids of the
\* record file.
C28_NoDivergence ==
    /\ is_initialized => IndexIds(faiss_index) = valid_ids(conversations_data)
    /\ index_file.exists => IndexIds(index_file) = valid_ids(history_file)

\* A process has loaded, from the files of an earlier one, two records and
\* their two vectors.
C28_Witness ==
    /\ last.op = "init" /\ is_initialized
    /\ valid_ids(conversations_data) = {1, 2}
    /\ IndexIds(faiss_index) = {1, 2}

\* Two records of the list have the same id.
IdClash(data) ==
    \E i, j \in 1..Len(data) : i # j /\ data[i].id = data[j].id

\* C25: a thread appends a record under an id that the list already holds
\* only when the list has grown between the statement that computed the id
\* and the append, that is, when another add ran in between; adds that run
\* one after the other never do.  The witness is the outcome the claim
\* names.
C25_ClashOnlyWhenInterleaved ==
    [][\A t \in Threads :
          (/\ adding[t].pc = "append" /\ adding'[t].pc = "save"
           /\ HasId(conversations_data, adding[t].new_id))
              => Len(conversations_data) > adding[t].seen]_vars

\* Two interleaved adds of two questions that are no duplicates of each
\* other have both returned: the two records, and the two vectors of the
\* index, in memory and in the files, have the same id.
C25_Witness ==
    /\ InFlight = {}
    /\ Len(conversations_data) = 2 /\ IdClash(conversations_data)
    /\ conversations_data[1].normalized_question
           # conversations_data[2].normalized_question
    /\ Similarity(conversations_data[1].normalized_question,
                  conversations_data[2].normalized_question)
           < DEFAULT_SIMILARITY_THRESHOLD_DEDUPLICATION
    /\ history_file = conversations_data
    /\ index_file = faiss_index
    /\ Len(faiss_index.entries) = 2
    /\ Cardinality(IndexIds(faiss_index)) = 1

\* C29: every context that main creates, for the first turn and for a
\* follow-up, is given the text that process_query returned, with is_safe
\* true, for the input read last.
C29_OnlyVettedInput ==
    [][(main.pc = "run" /\ main'.contexts = main.contexts + 1)
       => /\ process_query(main.user_input).is_safe
          /\ main'.context.user_input = process_query(main.user_input).text
      ]_vars

\* A context was created for a follow-up that process_query has changed.
C29_Witness ==
    /\ main.context.follow_up
    /\ main.context.user_input = <<"x">>
    /\ main.user_input = <<"hi", " ", "x">>

\* C30: a text that process_query returns with is_safe true matches no
\* unsafe pattern.
C30_SafeOutputClean ==
    (processed.called /\ processed.is_safe)
        => ~_contains_unsafe_pattern(processed.text)

\* The session ids of the contexts created so far: the constructor of each
\* has saved one conversation under its id.
PastSessions ==
    {historical_conversations[i].session_id :
         i \in 1..Len(historical_conversations)}

\* C31: a context that main creates has the session id of the context
\* created before it, in a first turn and in a follow-up, unless it is the
\* first context or 'new' was typed in between; then it has an id that no
\* earlier context had.
C31_SessionContinuity ==
    [][(main.pc = "run" /\ main'.contexts = main.contexts + 1)
       => IF main.contexts = 0 \/ main.renewed
          THEN /\ main'.context.session_id # NoSession
               /\ main'.context.session_id \notin PastSessions
          ELSE main'.context.session_id = main.context.session_id
      ]_vars

\* Three contexts: a first turn, a follow-up in the same session and, after
\* 'new', a turn in another session.
C31_Witness ==
    /\ main.contexts = 3
    /\ Len(historical_conversations) = 3
    /\ historical_conversations[1].session_id
           = historical_conversations[2].session_id
    /\ historical_conversations[3].session_id
           # historical_conversations[1].session_id
    /\ main.context.session_id = historical_conversations[3].session_id
    /\ main.current_session = main.context.session_id

====
